---- MODULE Spec2Model ----
(***************************************************************************)
(* libkirk.session.Session: the run()/stop() protocol of one Session       *)
(* shared by several asyncio tasks.                                        *)
(*                                                                         *)
(* asyncio is cooperative: a task runs without interruption from one       *)
(* `await` to the next.  Every action below is one such stretch of code:   *)
(* it resumes a task suspended at an await (pc[t] names that await), runs  *)
(* the synchronous code that follows and ends at the next await.  The      *)
(* SUT, the Framework, the SuiteScheduler, the JSONExporter and the event  *)
(* bus are collaborators; their calls complete with an outcome chosen by   *)
(* the environment.                                                        *)
(***************************************************************************)
EXTENDS Naturals, Sequences, FiniteSets, TLC

\* ---------------------------------------------------------------- bounds
MaxSuites == 1      \* longest `suites` list handed to run()
MaxCancels == 1     \* task.cancel() calls per run() task
MaxWorkers == 3     \* largest `workers` keyword given to Session()

\* ------------------------------------------------------------- the tasks
Runs == {"run1", "run2"}        \* tasks awaiting Session.run()
Stops == {"stop1", "stop2"}     \* tasks awaiting Session.stop()
Tasks == Runs \cup Stops

Commands == {"", "ls"}          \* "" is the falsy `command` (None)
SuiteNames == {"ltp"}
ReportPaths == {"", "report.json"}   \* "" is the falsy `report_path` (None)
DefaultPath == "tmpdir/results.json"

SeqsUpTo(S, n) == UNION {[1..k -> S] : k \in 0..n}

LifecycleEvents == {"session_started", "session_completed", "session_stopped", "session_error"}
Events == LifecycleEvents \cup {"sut_start", "sut_stop", "run_cmd_start", "run_cmd_stop"}

\* ------------------------------------------------------------ exceptions
NoErr == [kind |-> "none", arg |-> ""]
Repr(command) == "'" \o command \o "'"
Cancelled == [kind |-> "CancelledError", arg |-> ""]
KirkException(msg, arg) == [kind |-> msg, arg |-> arg]
SutError == KirkException("sut", "")
SchedulerError == KirkException("scheduler", "")
ExportError == KirkException("export", "")
SuiteError == KirkException("find_suite", "")

VARIABLES
    pc,                 \* task -> the await it is suspended at
    _stop,              \* Session._stop
    _run_lock,          \* Session._run_lock: [locked, waiters]
    _exec_lock,         \* Session._exec_lock: [locked, waiters]
    args,               \* run task -> [command, suites, report_path]
    exc,                \* task -> the exception in flight through its finally blocks
    max_workers,        \* the SuiteScheduler's max_workers
    _workers,           \* Session._workers (0: attribute never assigned)
    workers,            \* the `workers` keyword of the constructor
    parallel_execution, \* SUT.parallel_execution
    is_running,         \* SUT.is_running
    results,            \* SuiteScheduler.results is non-empty
    callers,            \* the tasks that call into the session
    inputs,             \* the arguments they may call run() with
    recall,             \* whether a task calls again after its call exited
    fired,              \* history: task -> event -> times the task fired it
    called,             \* history: task -> collaborator operation -> calls made
    saved,              \* history: run -> paths handed to save_file, in order
    cancels,            \* history: run -> task.cancel() calls received
    hist,               \* history: run -> how the phases of its call ended,
                        \*   and the tasks that called stop() during it
                        \*   (stops) and during its try block (stops_in_try),
                        \*   what it found when it began (overtook:
                        \*   unfinished; had_results: results), whether it
                        \*   called run_command, find_suite or schedule with
                        \*   _stop set (under_stop), _stop when its export
                        \*   failed (export_stop) and how its _inner_stop
                        \*   ended (stop_err)
    unfinished,         \* history: "open" while the run() in its body has
                        \*   fired no session_completed, session_stopped or
                        \*   session_error, "returned" once it has returned
                        \*   that way and until one of them is fired, else "no"
    inflight,           \* history: stop -> the runs in flight when it set _stop
    drained             \* history: stop -> those of them that exited since

vars == <<pc, _stop, _run_lock, _exec_lock, args, exc, max_workers, _workers,
          workers, parallel_execution, is_running, results, callers, inputs,
          recall, fired, called, saved, cancels, hist, unfinished, inflight, drained>>

\* The current state as one record: the code stretches below are functions
\* from state to state, and Commit makes one the next state.
State ==
    [pc |-> pc, _stop |-> _stop, _run_lock |-> _run_lock, _exec_lock |-> _exec_lock,
     args |-> args, exc |-> exc, max_workers |-> max_workers, _workers |-> _workers,
     workers |-> workers, parallel_execution |-> parallel_execution,
     is_running |-> is_running, results |-> results, callers |-> callers,
     inputs |-> inputs, recall |-> recall,
     fired |-> fired, called |-> called, saved |-> saved,
     cancels |-> cancels, hist |-> hist, unfinished |-> unfinished,
     inflight |-> inflight,
     drained |-> drained]

Commit(s) ==
    /\ pc' = s.pc
    /\ _stop' = s._stop
    /\ _run_lock' = s._run_lock
    /\ _exec_lock' = s._exec_lock
    /\ args' = s.args
    /\ exc' = s.exc
    /\ max_workers' = s.max_workers
    /\ _workers' = s._workers
    /\ workers' = s.workers
    /\ parallel_execution' = s.parallel_execution
    /\ is_running' = s.is_running
    /\ results' = s.results
    /\ callers' = s.callers
    /\ inputs' = s.inputs
    /\ recall' = s.recall
    /\ fired' = s.fired
    /\ called' = s.called
    /\ saved' = s.saved
    /\ cancels' = s.cancels
    /\ hist' = s.hist
    /\ unfinished' = s.unfinished
    /\ inflight' = s.inflight
    /\ drained' = s.drained

\* --------------------------------------------------------------- helpers
At(s, t, label) == [s EXCEPT !.pc[t] = label]

\* libkirk.events.fire(ev, ...) called by task t.
TerminalEvents == {"session_completed", "session_stopped", "session_error"}
Fire(s, t, ev) ==
    [s EXCEPT !.fired[t][ev] = @ + 1,
              !.unfinished = IF ev \in TerminalEvents THEN "no" ELSE @]

Call(s, t, op) == [s EXCEPT !.called[t][op] = @ + 1]

\* run() r makes n calls of op, an operation of its command or suite phase.
PhaseCall(s, r, op, n) ==
    [s EXCEPT !.called[r][op] = @ + n,
              !.hist[r].under_stop = @ \/ s._stop]

\* asyncio.Lock.  acquire() takes a free lock with no waiter at once, without
\* suspending; otherwise the task queues and is resumed, first come first
\* served, once the lock was released.
FreeLock == [locked |-> FALSE, waiters |-> <<>>]
CanLock_IgnoresHolder(l) == l.waiters = <<>>
CanLock(l) == ~l.locked /\ l.waiters = <<>>
Locked(l) == [l EXCEPT !.locked = TRUE]
Queued(l, t) == [l EXCEPT !.waiters = Append(@, t)]
Woken(l, t) == ~l.locked /\ l.waiters # <<>> /\ Head(l.waiters) = t
Granted(l) == [locked |-> TRUE, waiters |-> Tail(l.waiters)]
Released(l) == [l EXCEPT !.locked = FALSE]
Dequeued(l, t) == [l EXCEPT !.waiters = SelectSeq(@, LAMBDA w : w # t)]

\* ------------------------------------------------- _inner_stop, _stop_sut
\* stop(), finally (208-210): fire "session_stopped"; e is the exception that
\* entered the finally block (NoErr: none).
StopFinally(s, t, e) ==
    At(Fire([s EXCEPT !.exc[t] = e], t, "session_stopped"), t, "fire_session_stopped")

\* stop(), 206-207: `async with self._exec_lock: pass`.
StopExecBarrier(s, t) ==
    IF CanLock(s._exec_lock)
    THEN StopFinally(s, t, NoErr)
    ELSE At([s EXCEPT !._exec_lock = Queued(@, t)], t, "acquire_exec_lock")

\* stop(), 203-204: `async with self._run_lock: pass`.
StopRunBarrier_NoWait(s, t) == StopExecBarrier(s, t)

StopRunBarrier(s, t) ==
    IF CanLock(s._run_lock)
    THEN StopExecBarrier(s, t)
    ELSE At([s EXCEPT !._run_lock = Queued(@, t)], t, "acquire_run_lock")

RunExit_KeepsLock(s, r, e) ==
    At([s EXCEPT !.exc[r] = e,
                 !.unfinished = IF @ = "open" /\ e = NoErr THEN "returned"
                                ELSE IF @ = "open" THEN "no" ELSE @],
       r, IF e = NoErr THEN "returned" ELSE "raised")

\* run(), end of `async with self._run_lock` (226): the lock is released and
\* run returns, or raises e.
RunExit(s, r, e) ==
    At([s EXCEPT !._run_lock = Released(@), !.exc[r] = e,
                 !.unfinished = IF @ = "open" /\ e = NoErr THEN "returned"
                                ELSE IF @ = "open" THEN "no" ELSE @],
       r, IF e = NoErr THEN "returned" ELSE "raised")

InnerStopDone_NoFinally(s, t, e) ==
    IF t \in Runs
    THEN RunExit([s EXCEPT !.hist[t].stop_err = e], t,
                 IF e = NoErr THEN s.exc[t] ELSE e)
    ELSE IF e = NoErr THEN StopRunBarrier(s, t)
    ELSE At([s EXCEPT !.exc[t] = e], t, "raised")

\* _inner_stop() is left with e (NoErr: it returned).  In run() it is the
\* last statement of the inner finally (276): its exception replaces the
\* pending one.  In stop() it is followed by the two barriers (201-207).
InnerStopDone(s, t, e) ==
    IF t \in Runs
    THEN RunExit([s EXCEPT !.hist[t].stop_err = e], t,
                 IF e = NoErr THEN s.exc[t] ELSE e)
    ELSE IF e = NoErr THEN StopRunBarrier(s, t) ELSE StopFinally(s, t, e)

\* _inner_stop(), 190-191: await self._scheduler.stop().
InnerStop(s, t) == At(Call(s, t, "scheduler.stop"), t, "scheduler_stop")

\* _inner_stop(), 191-193: scheduler.stop() ended with e; then _stop_sut(),
\* which first awaits self._sut.is_running (133).
AfterSchedulerStop(s, t, e) ==
    IF e = NoErr THEN At(s, t, "is_running") ELSE InnerStopDone(s, t, e)

\* _stop_sut(), 133-136.
AfterIsRunning(s, t) ==
    IF ~s.is_running
    THEN InnerStopDone(s, t, NoErr)
    ELSE At(Fire(s, t, "sut_stop"), t, "fire_sut_stop")

\* _stop_sut(), 137: await self._sut.stop(...).
AfterFireSutStop(s, t) == At(Call(s, t, "sut.stop"), t, "sut_stop")

AfterSutStop(s, t, e) ==
    IF e = NoErr
    THEN InnerStopDone([s EXCEPT !.is_running = FALSE], t, NoErr)
    ELSE InnerStopDone(s, t, e)

\* ------------------------------------------------------- run(): cleanup
\* The paths run() hands to JSONExporter.save_file (251-264).
ExportPaths(report_path) ==
    <<DefaultPath>> \o (IF report_path # "" THEN <<report_path>> ELSE <<>>)

Cleanup_ExportOnSuccessOnly(s, r, e) ==
    LET s1 == [s EXCEPT !.exc[r] = e,
                        !.hist[r].cleanup = IF s.results THEN "results" ELSE "empty"]
    IN  IF s.results /\ e = NoErr /\ s.hist[r].body = "returned"
        THEN At([s1 EXCEPT !.saved[r] = @ \o ExportPaths(s.args[r].report_path)],
                r, "save_file")
        ELSE InnerStop(s1, r)

\* run(), finally (245-266), entered with the pending exception e.
Cleanup(s, r, e) ==
    LET s1 == [s EXCEPT !.exc[r] = e,
                        !.hist[r].cleanup = IF s.results THEN "results" ELSE "empty"]
    IN  IF s.results
        THEN At([s1 EXCEPT !.saved[r] = @ \o ExportPaths(s.args[r].report_path)],
                r, "save_file")
        ELSE InnerStop(s1, r)

AfterSave_SwallowedOnStop(s, r, e) ==
    IF e = NoErr
    THEN At(Fire(s, r, "session_completed"), r, "fire_session_completed")
    ELSE IF s._stop
    THEN InnerStop([s EXCEPT !.hist[r].export_err = e,
                             !.hist[r].export_stop = s._stop], r)
    ELSE At(Fire([s EXCEPT !.hist[r].export_err = e,
                           !.hist[r].export_stop = s._stop],
                 r, "session_error"),
            r, "fire_export_error")

\* run(), 266-274: asyncio.gather(*tasks) ended with e.
AfterSave(s, r, e) ==
    IF e = NoErr
    THEN At(Fire(s, r, "session_completed"), r, "fire_session_completed")
    ELSE At(Fire([s EXCEPT !.hist[r].export_err = e,
                           !.hist[r].export_stop = s._stop],
                 r, "session_error"),
            r, "fire_export_error")

\* run(), 274: `raise err` in the export handler, then the inner finally (276).
AfterFireExportError(s, r) ==
    InnerStop([s EXCEPT !.exc[r] = s.hist[r].export_err], r)

\* ------------------------------------------------------ run(): handlers
OnKirkException_AlwaysReports(s, r, e) ==
    At(Fire([s EXCEPT !.hist[r].body_err = e, !.hist[r].body_stop = s._stop,
                      !.hist[r].body = "reported"],
            r, "session_error"),
       r, "fire_session_error")

\* run(), 240-244: `except KirkException as err`.
OnKirkException(s, r, e) ==
    LET s1 == [s EXCEPT !.hist[r].body_err = e, !.hist[r].body_stop = s._stop] IN
    IF ~s._stop
    THEN At(Fire([s1 EXCEPT !.hist[r].body = "reported"], r, "session_error"),
            r, "fire_session_error")
    ELSE Cleanup([s1 EXCEPT !.hist[r].body = "swallowed"], r, NoErr)

\* run(), 244: `raise err`, then the finally block.
AfterFireSessionError(s, r) == Cleanup(s, r, s.hist[r].body_err)

\* run(), 238-239: `except asyncio.CancelledError`.
OnCancelledError(s, r) ==
    At(Fire([s EXCEPT !.hist[r].body = "cancelled"], r, "session_stopped"),
       r, "fire_session_stopped")

\* ------------------------------------------------- run(): suite phase
\* _read_suites(), 151-158, on the gathered find_suite results: the error
\* raised, NoErr when every suite resolved.
RECURSIVE ReadSuites(_)
ReadSuites(objs) ==
    IF objs = <<>> THEN NoErr
    ELSE IF Head(objs) = "exception" THEN SuiteError
    ELSE IF Head(objs) = "empty" THEN KirkException("Can't find suite objects", "")
    ELSE ReadSuites(Tail(objs))

SuitePhase_Unguarded(s, r) ==
    IF s.args[r].suites # <<>>
    THEN At(PhaseCall(s, r, "find_suite", Len(s.args[r].suites)), r, "find_suite")
    ELSE OnKirkException(s, r, KirkException("Can't find suites", ""))

\* run(), 235-236 and _read_suites(), 143-150.
SuitePhase(s, r) ==
    IF s.args[r].suites # <<>>
    THEN At(PhaseCall(s, r, "find_suite", Len(s.args[r].suites)), r, "find_suite")
    ELSE Cleanup([s EXCEPT !.hist[r].body = "returned"], r, NoErr)

AfterFindSuite_SchedulesAnyway(s, r, objs) ==
    At(PhaseCall([s EXCEPT !.hist[r].found = objs], r, "schedule", 1), r, "schedule")

\* _read_suites(), 150-158, then run(), 237.
AfterFindSuite(s, r, objs) ==
    LET s1 == [s EXCEPT !.hist[r].found = objs] IN
    IF ReadSuites(objs) = NoErr
    THEN At(PhaseCall(s1, r, "schedule", 1), r, "schedule")
    ELSE OnKirkException(s1, r, ReadSuites(objs))

\* run(), 237: scheduler.schedule() ended with e, leaving results res.
AfterSchedule(s, r, e, res) ==
    LET s1 == [s EXCEPT !.results = res] IN
    IF e = NoErr
    THEN Cleanup([s1 EXCEPT !.hist[r].body = "returned"], r, NoErr)
    ELSE OnKirkException(s1, r, e)

\* ----------------------------------------------- run(): command phase
\* _exec_command(), end of `async with self._exec_lock` (164), back in run().
ExecExit(s, r, e) ==
    LET s1 == [s EXCEPT !._exec_lock = Released(@), !.hist[r].exec_err = e] IN
    IF e = NoErr THEN SuitePhase(s1, r) ELSE OnKirkException(s1, r, e)

AfterRunCommand_TimeoutSwallowedOnStop(s, r, outcome) ==
    CASE outcome = "ok" ->
           At(Fire(s, r, "run_cmd_stop"), r, "fire_run_cmd_stop")
      [] outcome = "TimeoutError" ->
           ExecExit([s EXCEPT !.hist[r].exec = "timeout", !.hist[r].exec_stop = s._stop],
                    r, IF ~s._stop
                       THEN KirkException("Command timeout", Repr(s.args[r].command))
                       ELSE NoErr)
      [] outcome = "KirkException" ->
           IF ~s._stop
           THEN ExecExit([s EXCEPT !.hist[r].exec = "raised"], r, SutError)
           ELSE ExecExit([s EXCEPT !.hist[r].exec = "swallowed"], r, NoErr)

\* _exec_command(), 168-184: wait_for(run_command) ended with outcome.
AfterRunCommand(s, r, outcome) ==
    CASE outcome = "ok" ->
           At(Fire(s, r, "run_cmd_stop"), r, "fire_run_cmd_stop")
      [] outcome = "TimeoutError" ->
           ExecExit([s EXCEPT !.hist[r].exec = "timeout", !.hist[r].exec_stop = s._stop],
                    r, KirkException("Command timeout", Repr(s.args[r].command)))
      [] outcome = "KirkException" ->
           IF ~s._stop
           THEN ExecExit([s EXCEPT !.hist[r].exec = "raised"], r, SutError)
           ELSE ExecExit([s EXCEPT !.hist[r].exec = "swallowed"], r, NoErr)

\* _exec_command(), 175-179 done.
AfterFireCmdStop(s, r) == ExecExit([s EXCEPT !.hist[r].exec = "returned"], r, NoErr)

\* _exec_command(), 168: the call of sut.run_command under wait_for.
AfterFireCmdStart(s, r) == At(PhaseCall(s, r, "run_command", 1), r, "run_command")

\* _exec_command(), 165-166, the exec-lock held.
ExecBegin(s, r) ==
    At(Fire([s EXCEPT !.hist[r].exec = "entered"], r, "run_cmd_start"),
       r, "fire_run_cmd_start")

\* run(), 232-233 and _exec_command(), 164.
CommandPhase(s, r) ==
    IF s.args[r].command # ""
    THEN IF CanLock(s._exec_lock)
         THEN ExecBegin([s EXCEPT !._exec_lock = Locked(@)], r)
         ELSE At([s EXCEPT !._exec_lock = Queued(@, r)], r, "acquire_exec_lock")
    ELSE SuitePhase(s, r)

\* ------------------------------------------------- run(): start phase
\* _start_sut(), 126 done with e.
AfterEnsureCommunicate(s, r, e) ==
    IF e = NoErr
    THEN CommandPhase([s EXCEPT !.is_running = TRUE], r)
    ELSE OnKirkException(s, r, e)

\* _start_sut(), 126.
AfterFireSutStart(s, r) == At(Call(s, r, "ensure_communicate"), r, "ensure_communicate")

\* run(), 229-230 and _start_sut(), 125.
AfterFireSessionStarted(s, r) ==
    At(Fire([s EXCEPT !.hist[r].body = "running", !.unfinished = "open"],
            r, "sut_start"),
       r, "fire_sut_start")

\* run(), 227, the run-lock held.
RunBegin(s, r) ==
    At(Fire([s EXCEPT !.hist[r].overtook = s.unfinished,
                      !.hist[r].had_results = s.results],
            r, "session_started"),
       r, "fire_session_started")

\* ---------------------------------------------------------- cancellation
\* task.cancel() on a run() task: CancelledError is raised at the await the
\* task is suspended at.  res: the scheduler's results after a cancelled
\* schedule().
Cancel(s, r, res) ==
    CASE s.pc[r] = "acquire_run_lock" ->
           \* 226, not yet in the body: the waiter leaves the queue
           At([s EXCEPT !._run_lock = Dequeued(@, r), !.exc[r] = Cancelled], r, "raised")
      [] s.pc[r] = "fire_session_started" ->
           \* 227, outside the try block
           RunExit(s, r, Cancelled)
      [] s.pc[r] \in {"fire_sut_start", "ensure_communicate", "find_suite"} ->
           OnCancelledError(s, r)
      [] s.pc[r] = "schedule" ->
           OnCancelledError([s EXCEPT !.results = res], r)
      [] s.pc[r] = "acquire_exec_lock" ->
           OnCancelledError([s EXCEPT !._exec_lock = Dequeued(@, r)], r)
      [] s.pc[r] \in {"fire_run_cmd_start", "run_command", "fire_run_cmd_stop"} ->
           \* inside `async with self._exec_lock`: neither except clause of
           \* _exec_command matches
           OnCancelledError([s EXCEPT !._exec_lock = Released(@),
                                      !.hist[r].exec = "cancelled"], r)
      [] s.pc[r] \in {"fire_session_stopped", "fire_session_error"} ->
           \* inside a handler (239, 243): on to the finally block
           Cleanup(s, r, Cancelled)
      [] s.pc[r] \in {"save_file", "fire_session_completed", "fire_export_error"} ->
           \* inside the inner try (246-274): on to the inner finally
           InnerStop([s EXCEPT !.exc[r] = Cancelled], r)
      [] s.pc[r] \in {"scheduler_stop", "is_running", "fire_sut_stop", "sut_stop"} ->
           \* inside _inner_stop() (276)
           RunExit(s, r, Cancelled)

Exited(t) == pc[t] \in {"returned", "raised"}
Suspended(t) == pc[t] # "idle" /\ ~Exited(t)

\* ------------------------------------------------------------ construction
\* Session.__init__(), 79-99: the scheduler is built with max_workers=workers
\* (84-91); afterwards self._workers is set to 1 for a SUT without parallel
\* execution (95-99).  _workers = 0 stands for the attribute never assigned.
NewSession(kw_workers, sut_parallel) ==
    [max_workers |-> kw_workers,
     _workers |-> IF ~sut_parallel THEN 1 ELSE 0]

NoArgs == [command |-> "", suites |-> <<>>, report_path |-> ""]

NoHist ==
    [body |-> "unreached", body_err |-> NoErr, body_stop |-> FALSE,
     exec |-> "none", exec_err |-> NoErr, exec_stop |-> FALSE,
     found |-> <<>>, cleanup |-> "unreached", export_err |-> NoErr,
     stops |-> {}, stops_in_try |-> {}, overtook |-> "no",
     had_results |-> FALSE, under_stop |-> FALSE, export_stop |-> FALSE,
     stop_err |-> NoErr]

Operations == {"ensure_communicate", "run_command", "find_suite", "schedule",
               "scheduler.stop", "sut.stop"}

\* Every argument list run() can be called with, and one that takes a run
\* through the command phase, the suite phase and both exports.
AllInputs ==
    [command : Commands, suites : SeqsUpTo(SuiteNames, MaxSuites),
     report_path : ReportPaths]
FullInput ==
    {a \in AllInputs : a.command # "" /\ Len(a.suites) = 1 /\ a.report_path # ""}

InitSession(kw_workers, sut_parallel, who, what, again) ==
    /\ pc = [t \in Tasks |-> "idle"]
    /\ _stop = FALSE
    /\ _run_lock = FreeLock
    /\ _exec_lock = FreeLock
    /\ args = [r \in Runs |-> NoArgs]
    /\ exc = [t \in Tasks |-> NoErr]
    /\ max_workers = NewSession(kw_workers, sut_parallel).max_workers
    /\ _workers = NewSession(kw_workers, sut_parallel)._workers
    /\ workers = kw_workers
    /\ parallel_execution = sut_parallel
    /\ is_running = FALSE
    /\ results = FALSE
    /\ callers = who
    /\ inputs = what
    /\ recall = again
    /\ fired = [t \in Tasks |-> [e \in Events |-> 0]]
    /\ called = [t \in Tasks |-> [o \in Operations |-> 0]]
    /\ saved = [r \in Runs |-> <<>>]
    /\ cancels = [r \in Runs |-> 0]
    /\ hist = [r \in Runs |-> NoHist]
    /\ unfinished = "no"
    /\ inflight = [t \in Stops |-> {}]
    /\ drained = [t \in Stops |-> {}]

InitWith(kw_workers, sut_parallel, who, what) ==
    InitSession(kw_workers, sut_parallel, who, what, TRUE)

\* One run() caller and one stop() caller, every argument list.
Init == InitWith(1, TRUE, {"run1", "stop1"}, AllInputs)

\* Two run() callers and one stop() caller.
InitRuns == InitWith(1, TRUE, {"run1", "run2", "stop1"}, FullInput)

\* One run() caller and two stop() callers, each calling once.
InitStops == InitSession(1, TRUE, {"run1", "stop1", "stop2"}, FullInput, FALSE)

\* One run() caller and one stop() caller, each calling once.
InitFair == InitSession(1, TRUE, {"run1", "stop1"}, FullInput, FALSE)

\* Every way of constructing the Session.
InitNew ==
    \E w \in 1..MaxWorkers, p \in BOOLEAN : InitWith(w, p, {"run1", "stop1"}, FullInput)

\* ---------------------------------------------------------------- tasks
\* The histories describe one call.  A call that exited is observed in the
\* state it exited in; before anything else happens its history is dropped
\* (Forget) and the task is free to call again.
Resumes(t, label) == pc[t] = label /\ \A u \in Tasks : ~Exited(u)

InBody(s, r) ==
    s.pc[r] \notin {"idle", "acquire_run_lock", "returned", "raised"}

\* run(), 229-237: suspended inside the try block, in the start, command or
\* suite phase.
InTry(s, r) ==
    s.pc[r] \in {"fire_sut_start", "ensure_communicate", "acquire_exec_lock",
                 "fire_run_cmd_start", "run_command", "fire_run_cmd_stop",
                 "find_suite", "schedule"}

Forget(t) ==
    /\ Exited(t)
    /\ pc' = [pc EXCEPT ![t] = "idle"]
    /\ exc' = [exc EXCEPT ![t] = NoErr]
    /\ fired' = [fired EXCEPT ![t] = [e \in Events |-> 0]]
    /\ called' = [called EXCEPT ![t] = [o \in Operations |-> 0]]
    /\ IF t \in Runs
       THEN /\ args' = [args EXCEPT ![t] = NoArgs]
            /\ saved' = [saved EXCEPT ![t] = <<>>]
            /\ cancels' = [cancels EXCEPT ![t] = 0]
            /\ hist' = [hist EXCEPT ![t] = NoHist]
            /\ drained' = [u \in Stops |-> drained[u] \cup (inflight[u] \cap {t})]
            /\ UNCHANGED inflight
       ELSE /\ inflight' = [inflight EXCEPT ![t] = {}]
            /\ drained' = [drained EXCEPT ![t] = {}]
            /\ UNCHANGED <<args, saved, cancels, hist>>
    /\ callers' = IF recall THEN callers ELSE callers \ {t}
    /\ UNCHANGED <<_stop, _run_lock, _exec_lock, max_workers, _workers, workers,
                   parallel_execution, is_running, results, inputs, recall,
                   unfinished>>

\* ----------------------------------------------------------------- run()
\* run(), 226-227 with the run-lock held.  The arguments are those of the
\* call; run() reads none of them before it holds the lock, and the model
\* draws them here.
RunEnter(s, r) ==
    \E a \in inputs : Commit(RunBegin([s EXCEPT !.args[r] = a], r))

\* A task calls run(command, suites, report_path): 226.
RunCall(r) ==
    /\ r \in Runs \cap callers
    /\ Resumes(r, "idle")
    /\ IF CanLock(_run_lock)
       THEN RunEnter([State EXCEPT !._run_lock = Locked(@)], r)
       ELSE Commit(At([State EXCEPT !._run_lock = Queued(@, r)], r, "acquire_run_lock"))

\* 164, 203-207, 226: a task queued on a lock is handed it.  A stop() releases
\* the run-lock at once and goes on to the exec-lock (203-206), and releases
\* the exec-lock at once (206-207).
LockGranted(t) ==
    /\ pc[t] \in {"acquire_run_lock", "acquire_exec_lock"}
    /\ \A u \in Tasks : ~Exited(u)
    /\ IF pc[t] = "acquire_run_lock"
       THEN /\ Woken(_run_lock, t)
            /\ IF t \in Runs
               THEN RunEnter([State EXCEPT !._run_lock = Granted(@)], t)
               ELSE Commit(StopExecBarrier(
                        [State EXCEPT !._run_lock = Released(Granted(@))], t))
       ELSE /\ Woken(_exec_lock, t)
            /\ Commit(IF t \in Runs
                      THEN ExecBegin([State EXCEPT !._exec_lock = Granted(@)], t)
                      ELSE StopFinally(
                               [State EXCEPT !._exec_lock = Released(Granted(@))],
                               t, NoErr))

SessionStartedFired(r) ==
    /\ r \in Runs
    /\ Resumes(r, "fire_session_started")
    /\ Commit(AfterFireSessionStarted(State, r))

SutStartFired(r) ==
    /\ r \in Runs
    /\ Resumes(r, "fire_sut_start")
    /\ Commit(AfterFireSutStart(State, r))

EnsureCommunicateDone(r) ==
    /\ r \in Runs
    /\ Resumes(r, "ensure_communicate")
    /\ \E e \in {NoErr, SutError} : Commit(AfterEnsureCommunicate(State, r, e))

RunCmdStartFired(r) ==
    /\ r \in Runs
    /\ Resumes(r, "fire_run_cmd_start")
    /\ Commit(AfterFireCmdStart(State, r))

RunCommandDone(r) ==
    /\ r \in Runs
    /\ Resumes(r, "run_command")
    /\ \E outcome \in {"ok", "TimeoutError", "KirkException"} :
         Commit(AfterRunCommand(State, r, outcome))

RunCmdStopFired(r) ==
    /\ r \in Runs
    /\ Resumes(r, "fire_run_cmd_stop")
    /\ Commit(AfterFireCmdStop(State, r))

FindSuiteDone(r) ==
    /\ r \in Runs
    /\ Resumes(r, "find_suite")
    /\ \E objs \in [1..Len(args[r].suites) -> {"suite", "empty", "exception"}] :
         Commit(AfterFindSuite(State, r, objs))

ScheduleDone(r) ==
    /\ r \in Runs
    /\ Resumes(r, "schedule")
    /\ \E e \in {NoErr, SchedulerError}, res \in BOOLEAN :
         Commit(AfterSchedule(State, r, e, res))

RunSessionStoppedFired(r) ==
    /\ r \in Runs
    /\ Resumes(r, "fire_session_stopped")
    /\ Commit(Cleanup(State, r, NoErr))

SessionErrorFired(r) ==
    /\ r \in Runs
    /\ Resumes(r, "fire_session_error")
    /\ Commit(AfterFireSessionError(State, r))

SaveFileDone(r) ==
    /\ r \in Runs
    /\ Resumes(r, "save_file")
    /\ \E e \in {NoErr, ExportError} : Commit(AfterSave(State, r, e))

SessionCompletedFired(r) ==
    /\ r \in Runs
    /\ Resumes(r, "fire_session_completed")
    /\ Commit(InnerStop(State, r))

ExportErrorFired(r) ==
    /\ r \in Runs
    /\ Resumes(r, "fire_export_error")
    /\ Commit(AfterFireExportError(State, r))

CancelRun(r) ==
    /\ r \in Runs
    /\ Suspended(r)
    /\ \A u \in Tasks : ~Exited(u)
    /\ cancels[r] < MaxCancels
    /\ \E res \in {results, TRUE} :
         Commit(Cancel([State EXCEPT !.cancels[r] = @ + 1], r, res))

\* ---------------------------------------------------------------- stop()
\* A task calls stop(): 199-201.
StopCall(t) ==
    /\ t \in Stops \cap callers
    /\ Resumes(t, "idle")
    /\ Commit(InnerStop(
           [State EXCEPT !._stop = TRUE,
                         !.inflight[t] = {r \in Runs : InBody(State, r)},
                         !.hist = [r \in Runs |->
                                     IF InBody(State, r)
                                     THEN [hist[r] EXCEPT
                                              !.stops = @ \cup {t},
                                              !.stops_in_try =
                                                  IF InTry(State, r)
                                                  THEN @ \cup {t} ELSE @]
                                     ELSE hist[r]]], t))

\* stop(), 210: self._stop = False, then stop returns or raises.
StopSessionStoppedFired(t) ==
    /\ t \in Stops
    /\ Resumes(t, "fire_session_stopped")
    /\ Commit(At([State EXCEPT !._stop = FALSE], t,
                 IF exc[t] = NoErr THEN "returned" ELSE "raised"))

\* --------------------------------------- _inner_stop(), in run() and stop()
SchedulerStopDone(t) ==
    /\ Resumes(t, "scheduler_stop")
    /\ \E e \in {NoErr, SchedulerError} : Commit(AfterSchedulerStop(State, t, e))

IsRunningDone(t) ==
    /\ Resumes(t, "is_running")
    /\ Commit(AfterIsRunning(State, t))

SutStopFired(t) ==
    /\ Resumes(t, "fire_sut_stop")
    /\ Commit(AfterFireSutStop(State, t))

SutStopDone(t) ==
    /\ Resumes(t, "sut_stop")
    /\ \E e \in {NoErr, SutError} : Commit(AfterSutStop(State, t, e))

Next ==
    \E t \in Tasks :
        \/ RunCall(t)
        \/ LockGranted(t)
        \/ SessionStartedFired(t)
        \/ SutStartFired(t)
        \/ EnsureCommunicateDone(t)
        \/ RunCmdStartFired(t)
        \/ RunCommandDone(t)
        \/ RunCmdStopFired(t)
        \/ FindSuiteDone(t)
        \/ ScheduleDone(t)
        \/ RunSessionStoppedFired(t)
        \/ SessionErrorFired(t)
        \/ SaveFileDone(t)
        \/ SessionCompletedFired(t)
        \/ ExportErrorFired(t)
        \/ CancelRun(t)
        \/ StopCall(t)
        \/ StopSessionStoppedFired(t)
        \/ SchedulerStopDone(t)
        \/ IsRunningDone(t)
        \/ SutStopFired(t)
        \/ SutStopDone(t)
        \/ Forget(t)

Spec == Init /\ [][Next]_vars
SpecRuns == InitRuns /\ [][Next]_vars
SpecStops == InitStops /\ [][Next]_vars
SpecNew == InitNew /\ [][Next]_vars

\* The event loop resumes every task that is ready, and every operation of
\* the SUT, the Framework, the Scheduler, the Exporter and the event bus
\* that a task awaits ends: each step of a call that has begun is taken once
\* it stays possible.  Calling run() or stop() and cancelling a task are up
\* to the callers.
Step(t) ==
    \/ LockGranted(t)
    \/ SessionStartedFired(t)
    \/ SutStartFired(t)
    \/ EnsureCommunicateDone(t)
    \/ RunCmdStartFired(t)
    \/ RunCommandDone(t)
    \/ RunCmdStopFired(t)
    \/ FindSuiteDone(t)
    \/ ScheduleDone(t)
    \/ RunSessionStoppedFired(t)
    \/ SessionErrorFired(t)
    \/ SaveFileDone(t)
    \/ SessionCompletedFired(t)
    \/ ExportErrorFired(t)
    \/ StopSessionStoppedFired(t)
    \/ SchedulerStopDone(t)
    \/ IsRunningDone(t)
    \/ SutStopFired(t)
    \/ SutStopDone(t)
    \/ Forget(t)

SpecFair == InitFair /\ [][Next]_vars /\ \A t \in Tasks : WF_vars(Step(t))

\* ============================================================ properties
\* C1: when stop() returns to its caller, every run() that was in flight when
\* that stop() set the stopping flag has left its body and released the
\* run-lock, so that none of them is inside the exec-lock section of
\* _exec_command either.
C1_StopReturnsAfterRunExited ==
    \A t \in Stops :
        pc[t] = "returned" =>
            \A r \in inflight[t] : r \in drained[t]

\* C1 witness: a stop() that was called during a run() has returned.
C1_Witness ==
    \E t \in Stops : pc[t] = "returned" /\ inflight[t] # {}

\* C2: a run() during whose start, command or suite phase stop() was called
\* ends on the stop path: it fires no session_error and does not re-raise the
\* error of its try block, and the stop() call fires session_stopped.  (Stated
\* for a run that was not cancelled and whose export did not fail.)
C2_StoppedRunEndsOnStopPath ==
    /\ \A r \in Runs :
           (/\ Exited(r)
            /\ hist[r].stops_in_try # {}
            /\ cancels[r] = 0
            /\ hist[r].export_err = NoErr) =>
               /\ fired[r]["session_error"] = 0
               /\ hist[r].body # "reported"
    /\ \A t \in Stops : Exited(t) => fired[t]["session_stopped"] = 1

ExecSection == {"fire_run_cmd_start", "run_command", "fire_run_cmd_stop"}

\* C3: at most one run() executes its body (from session_started to the end
\* of the final _inner_stop) and at most one task executes the exec-lock
\* section of _exec_command; a run() in its body holds the run-lock and a
\* task in the exec-lock section holds the exec-lock.
C3_GuardedSectionsExclusive ==
    /\ Cardinality({r \in Runs : InBody(State, r)}) <= 1
    /\ Cardinality({t \in Tasks : pc[t] \in ExecSection}) <= 1
    /\ \A r \in Runs : InBody(State, r) => _run_lock.locked
    /\ \A t \in Tasks : pc[t] \in ExecSection => _exec_lock.locked

\* C3 witness: a run() executes a command under both locks while another
\* run() and a stop() wait for the run-lock.
C3_Witness ==
    \E r \in Runs, q \in Runs, t \in Stops :
        /\ pc[r] \in ExecSection
        /\ pc[q] = "acquire_run_lock"
        /\ pc[t] = "acquire_run_lock"

\* C4: the stopping flag is false only when every run() that was in flight
\* when a stop() call set it has exited: it is never reset while such a run
\* is still executing.
C4_FlagClearedAfterDrain ==
    ~_stop => \A t \in Stops : \A r \in inflight[t] : r \in drained[t]

\* C5: a run() that reached its cleanup with non-empty scheduler results has,
\* when it exits, handed the results to save_file exactly once for the
\* default results.json path and, when a report path was supplied, exactly
\* once more for that path, however its try block ended.
C5_ResultsExportedOnce ==
    \A r \in Runs :
        (Exited(r) /\ hist[r].cleanup = "results") =>
            saved[r] = IF args[r].report_path = ""
                       THEN <<DefaultPath>>
                       ELSE <<DefaultPath, args[r].report_path>>

\* C5 witness: a run() cancelled during schedule() exported to both paths.
C5_Witness ==
    \E r \in Runs :
        /\ Exited(r)
        /\ hist[r].body = "cancelled"
        /\ hist[r].cleanup = "results"
        /\ saved[r] = <<DefaultPath, "report.json">>

\* The session_completed, session_stopped and session_error events a run()
\* fired itself.
Completions(r) ==
    fired[r]["session_completed"] + fired[r]["session_stopped"]
        + fired[r]["session_error"]

\* C6: a run() that reached its cleanup, was not cancelled there and leaves
\* with no other error than that of its body or its export has, when it
\* exits, fired exactly one lifecycle-completion event (session_completed,
\* session_stopped or session_error), or fired none and leaves the
\* session_stopped to a stop() called during it.
C6_OneCompletionEvent ==
    \A r \in Runs :
        (/\ Exited(r)
         /\ hist[r].cleanup # "unreached"
         /\ (cancels[r] = 0 \/ hist[r].body = "cancelled")
         /\ exc[r] \in {NoErr, Cancelled, hist[r].body_err, hist[r].export_err}) =>
            \/ Completions(r) = 1
            \/ Completions(r) = 0 /\ hist[r].stops # {}

\* C7: a run() fires session_started only after the terminal event
\* (session_completed, session_stopped or session_error) of the run() that
\* returned before it on the session.
C7_StartedAfterTerminalEvent ==
    \A r \in Runs : hist[r].overtook # "returned"

\* C8: when an ad-hoc command timed out, _exec_command has raised the timeout
\* error carrying the command text, with the stopping flag set or not, after
\* firing run_cmd_start once and without firing run_cmd_stop.
C8_TimeoutAlwaysRaised ==
    \A r \in Runs :
        hist[r].exec = "timeout" =>
            /\ hist[r].exec_err =
                   [kind |-> "Command timeout", arg |-> "'" \o args[r].command \o "'"]
            /\ fired[r]["run_cmd_start"] = 1
            /\ fired[r]["run_cmd_stop"] = 0

\* C8 witness: a command timed out while the stopping flag was set.
C8_Witness ==
    \E r \in Runs :
        /\ hist[r].exec = "timeout"
        /\ hist[r].exec_stop
        /\ args[r].command = "ls"

\* C9: a Session built on a SUT without parallel execution has a scheduler
\* with exactly one worker.
C9_OneWorkerWithoutParallel ==
    ~parallel_execution => max_workers = 1

\* The run() calls that are over and whose suites the Framework could not
\* resolve.
Unresolved(r) == Exited(r) /\ ReadSuites(hist[r].found) # NoErr

\* C10 as stated: a run() whose suite name cannot be resolved, and that was
\* not cancelled, raises to its caller, never calls schedule and hands no
\* results to the exporter.
C10_UnresolvedSuiteFailsRun ==
    \A r \in Runs :
        (Unresolved(r) /\ cancels[r] = 0) =>
            /\ pc[r] = "raised"
            /\ called[r]["schedule"] = 0
            /\ saved[r] = <<>>

\* C10 amended: a run() whose suite name cannot be resolved never calls
\* schedule; when the stopping flag is not set as the failure is handled,
\* session_error is fired and the run, unless cancelled, raises; and results
\* are handed to the exporter only if the scheduler held results before the
\* run began.
C10_UnresolvedSuiteNeverScheduled ==
    \A r \in Runs :
        Unresolved(r) =>
            /\ called[r]["schedule"] = 0
            /\ hist[r].body_err = ReadSuites(hist[r].found)
            /\ ~hist[r].body_stop =>
                   /\ fired[r]["session_error"] >= 1
                   /\ cancels[r] = 0 => pc[r] = "raised"
            /\ hist[r].body_stop => hist[r].body = "swallowed"
            /\ ~hist[r].had_results => saved[r] = <<>>

\* C10 witness: a run() on a session without results could not resolve its
\* suite and raised the resolution error.
C10_Witness ==
    \E r \in Runs :
        /\ Unresolved(r)
        /\ ~hist[r].body_stop
        /\ ~hist[r].had_results
        /\ pc[r] = "raised"
        /\ exc[r] = KirkException("Can't find suite objects", "")
        /\ saved[r] = <<>>

\* C11: a run() called with no command and an empty suite list never calls
\* run_command, find_suite or schedule and fires no run_cmd_start or
\* run_cmd_stop; the only error its try block can end with is that of the
\* SUT start, and when it was not cancelled it called ensure_communicate and
\* scheduler.stop once each and returns unless one of the SUT, the Scheduler
\* or the Exporter failed.
C11_EmptyRunOnlyStartsAndStops ==
    \A r \in Runs :
        (Exited(r) /\ args[r].command = "" /\ args[r].suites = <<>>) =>
            /\ called[r]["run_command"] = 0
            /\ called[r]["find_suite"] = 0
            /\ called[r]["schedule"] = 0
            /\ fired[r]["run_cmd_start"] = 0
            /\ fired[r]["run_cmd_stop"] = 0
            /\ hist[r].body_err \in {NoErr, SutError}
            /\ exc[r] \in {NoErr, Cancelled, SutError, SchedulerError, ExportError}
            /\ (cancels[r] = 0 /\ hist[r].body # "unreached") =>
                   /\ called[r]["ensure_communicate"] = 1
                   /\ called[r]["scheduler.stop"] = 1
                   /\ (hist[r].body_err = NoErr) = (hist[r].body = "returned")

\* C11 witness: a run() with no command and no suites started and stopped the
\* SUT and returned.
C11_Witness ==
    \E r \in Runs :
        /\ pc[r] = "returned"
        /\ args[r].command = "" /\ args[r].suites = <<>>
        /\ called[r]["ensure_communicate"] = 1
        /\ called[r]["sut.stop"] = 1
        /\ fired[r]["sut_start"] = 1 /\ fired[r]["sut_stop"] = 1

\* C12: a run() whose export failed has fired session_error for it (once
\* more than for the error of its try block) and raises, with the stopping
\* flag set or not and however its try block ended; the error raised is the
\* export error unless the run was cancelled or its _inner_stop failed
\* afterwards.
C12_ExportFailureAlwaysRaised ==
    \A r \in Runs :
        (Exited(r) /\ hist[r].export_err # NoErr) =>
            /\ fired[r]["session_error"] =
                   1 + (IF hist[r].body = "reported" THEN 1 ELSE 0)
            /\ pc[r] = "raised"
            /\ (cancels[r] = 0 /\ hist[r].stop_err = NoErr) =>
                   exc[r] = hist[r].export_err

\* C12 witness: the export of a run() failed while the stopping flag was set,
\* after the error of its try block was swallowed, and the run raised the
\* export error.
C12_Witness ==
    \E r \in Runs :
        /\ Exited(r)
        /\ hist[r].export_stop
        /\ hist[r].body = "swallowed"
        /\ hist[r].export_err = ExportError
        /\ exc[r] = ExportError

\* C13: a run() never calls run_command, find_suite or schedule while the
\* stopping flag is set: once stop() has set the flag the run enters no
\* further command or suite phase.
C13_NoNewPhaseUnderStop ==
    \A r \in Runs : ~hist[r].under_stop

\* C14: when scheduler.stop() has ended in _inner_stop, with an error or
\* without, and the SUT is running, the task goes on to _stop_sut (it awaits
\* sut.is_running and then stops the SUT).
C14_SutStopAttempted ==
    [][\A t \in Tasks :
           (/\ pc[t] = "scheduler_stop"
            /\ pc'[t] # "scheduler_stop"
            /\ cancels' = cancels
            /\ is_running) => pc'[t] = "is_running"]_vars

\* C15: a run() that attempted the SUT start and was not cancelled has, when
\* it returns or raises, called scheduler.stop once and, if the SUT is still
\* running, sut.stop once.
C15_TeardownBeforeExit ==
    \A r \in Runs :
        (Exited(r) /\ called[r]["ensure_communicate"] = 1 /\ cancels[r] = 0) =>
            /\ called[r]["scheduler.stop"] = 1
            /\ is_running => called[r]["sut.stop"] = 1

\* The session_error events a run() owes to its export.
ExportErrors(r) == IF hist[r].export_err # NoErr THEN 1 ELSE 0

\* C16: for a run() whose start, command or suite phase raised a domain
\* error: if the stopping flag was not set when the handler took it,
\* session_error was fired for it and the run raises (that error, unless the
\* run was cancelled or its export or _inner_stop failed afterwards); if the
\* flag was set, no session_error was fired for it and the run returns
\* unless it was cancelled or its export or _inner_stop failed.  A command
\* error that _exec_command swallowed under the flag never reaches the
\* handler.
C16_DomainErrorFollowsFlag ==
    \A r \in Runs :
        /\ (Exited(r) /\ hist[r].body_err # NoErr /\ ~hist[r].body_stop) =>
               /\ hist[r].body = "reported"
               /\ fired[r]["session_error"] = 1 + ExportErrors(r)
               /\ cancels[r] = 0 => pc[r] = "raised"
               /\ (cancels[r] = 0 /\ ExportErrors(r) = 0 /\ hist[r].stop_err = NoErr) =>
                      exc[r] = hist[r].body_err
        /\ (Exited(r) /\ hist[r].body_err # NoErr /\ hist[r].body_stop) =>
               /\ hist[r].body = "swallowed"
               /\ fired[r]["session_error"] = ExportErrors(r)
               /\ (cancels[r] = 0 /\ ExportErrors(r) = 0 /\ hist[r].stop_err = NoErr) =>
                      pc[r] = "returned"
        /\ (Exited(r) /\ hist[r].exec = "swallowed") => hist[r].exec_err = NoErr

\* C16 witness: a command timeout reached the handler of run() while the
\* stopping flag was set, and the run returned without a session_error.
C16_Witness ==
    \E r \in Runs :
        /\ pc[r] = "returned"
        /\ hist[r].exec = "timeout"
        /\ hist[r].body_err = KirkException("Command timeout", "'ls'")
        /\ hist[r].body_stop
        /\ fired[r]["session_error"] = 0

\* C17: a run() that was cancelled, and that leaves with no other error,
\* has caught the cancellation: it fired session_stopped, called
\* scheduler.stop in its cleanup and does not raise CancelledError.
C17_CancellationNeverPropagates ==
    \A r \in Runs :
        (Exited(r) /\ cancels[r] >= 1 /\ exc[r] \in {NoErr, Cancelled}) =>
            /\ exc[r] = NoErr
            /\ fired[r]["session_stopped"] >= 1
            /\ called[r]["scheduler.stop"] = 1

\* C18: a stop() call that has returned or raised fired session_stopped
\* exactly once, and the stopping flag is false as it exits.
C18_StopFiresOnceAndClears ==
    \A t \in Stops :
        Exited(t) => fired[t]["session_stopped"] = 1 /\ ~_stop

\* C18 witness: a stop() whose _inner_stop failed has raised while another
\* stop() call is in progress.
C18_Witness ==
    \E t \in Stops, u \in Stops :
        /\ pc[t] = "raised"
        /\ exc[t] \in {SchedulerError, SutError}
        /\ Suspended(u)

\* C20: as long as no stop() call failed, the stopping flag is true exactly
\* when a stop() call has started and not yet exited.
C20_FlagTracksStops ==
    (\A t \in Stops : exc[t] = NoErr) =>
        (_stop <=> \E t \in Stops : Suspended(t))

\* C19: every run() call and every stop() call that has begun eventually
\* returns or raises.
C19_EveryCallExits ==
    \A t \in Tasks : Suspended(t) ~> Exited(t)

\* C19 witness: a stop() that waited for the run-lock while the run() held
\* both locks has passed its barriers, after the run() exited.
C19_Witness ==
    \E r \in Runs, t \in Stops :
        /\ pc[t] = "fire_session_stopped"
        /\ exc[t] = NoErr
        /\ r \in inflight[t] /\ r \in drained[t]

====
